---- MODULE Spec2Model ----
(***************************************************************************)
(* Early Fogo Checker: the wallet check of early-fogo-checker.py.          *)
(*                                                                         *)
(* Spec   : one press of the "Check Wallet" button: the handler, the       *)
(*          check_wallet pipeline with its three RPC calls, the close of   *)
(*          the client and the rendering of the outcome.                   *)
(* FnSpec : direct calls of the pure functions calculate_score and         *)
(*          get_tier on a grid of positions.                               *)
(*                                                                         *)
(* Representation.                                                         *)
(*  - Optional values are sequences: <<>> is Python's None, <<x>> is x.    *)
(*  - A score is held exactly, in hundredths: [h |-> n, r |-> k] is the    *)
(*    number (n + k/latest_slot) / 100, 0 <= k < latest_slot.  A value     *)
(*    with r = 0 has at most two decimal places.                           *)
(*  - The float arithmetic of calculate_score is modelled by exact         *)
(*    rational arithmetic.  A double never holds x.xx5 exactly, so where   *)
(*    the exact value lies halfway between two hundredths round() may      *)
(*    return either neighbour: round2 returns the set of possible results. *)
(*  - All arithmetic stays below 2^31.                                     *)
(***************************************************************************)
EXTENDS Integers, Sequences, FiniteSets, TLC

VARIABLES
    pc,            \* position of the handler / pipeline
    wallet,        \* text of the input box
    client,        \* "none" | "open" | "closed": FogoTestnetChecker.client
    calls,         \* RPC methods issued by this check, in order
    account_info,  \* what get_account_info returned
    page,          \* response.value of get_signatures_for_address
    transactions,  \* what get_transaction_history returned
    latest,        \* latest_slot: what get_latest_slot returned
    result,        \* the result dict of check_wallet
    exc,           \* exception that left check_wallet, <<>> if none
    message,       \* what the handler rendered
    elapsed        \* seconds spent waiting on RPC calls

vars == <<pc, wallet, client, calls, account_info, page, transactions,
          latest, result, exc, message, elapsed>>

(***************************************************************************)
(* Bounds of the model.                                                    *)
(***************************************************************************)
MaxPage == 2       \* longest page of signatures the endpoint returns
MaxElapsed == 40   \* the clock stops advancing here
GridMax == 6       \* FnSpec: first positions up to GridMax days
LatestMax == 8     \* FnSpec: latest positions up to LatestMax days

(***************************************************************************)
(* Python values.                                                          *)
(***************************************************************************)
None == <<>>
Some(x) == <<x>>

\* bool(x) of an Optional[int]: None and 0 are falsy
Truthy(opt) == opt # None /\ opt[1] # 0

(***************************************************************************)
(* Configuration.                                                          *)
(***************************************************************************)
\* days from 1970-01-01 to 2025-07-22
TESTNET_LAUNCH_DATE == 20291

\* days from 1970-01-01 to 9999-12-31, the last date a datetime can hold
MAX_DATE == 2932896

slots_per_day == 2160000

TIERS == <<
    [inf |-> FALSE, threshold |-> 2200000,  label |-> "Genesis Early (Day 1)"],
    [inf |-> FALSE, threshold |-> 4300000,  label |-> "Super Early (Day 2)"],
    [inf |-> FALSE, threshold |-> 6500000,  label |-> "Early (Day 3)"],
    [inf |-> FALSE, threshold |-> 10800000, label |-> "Late (Day 5)"],
    [inf |-> TRUE,  threshold |-> 0,        label |-> "Recently Joined"] >>

(***************************************************************************)
(* Exact arithmetic on scores.                                             *)
(***************************************************************************)
\* <<(a*b) \div d, (a*b) % d>> for 0 <= a <= d < 2^30, by binary long
\* multiplication so that no intermediate value reaches 2^31
RECURSIVE MulDivMod(_, _, _)
MulDivMod(a, b, d) ==
    IF b = 0 THEN <<0, 0>>
    ELSE LET half == MulDivMod(a, b \div 2, d)
             r2 == 2 * half[2]
             q3 == 2 * half[1] + (IF r2 >= d THEN 1 ELSE 0)
             r3 == IF r2 >= d THEN r2 - d ELSE r2
             r4 == IF b % 2 = 1 THEN r3 + a ELSE r3
         IN  IF r4 >= d THEN <<q3 + 1, r4 - d>> ELSE <<q3, r4>>

\* the float literal with the given number of hundredths
Float(hundredths) == [h |-> hundredths, r |-> 0]

\* v + pts, pts a whole number
Plus(v, pts) == [h |-> v.h + 100 * pts, r |-> v.r]

\* v <= w
Leq(v, w) == v.h < w.h \/ (v.h = w.h /\ v.r <= w.r)

min(v, w) == IF Leq(v, w) THEN v ELSE w
max(v, w) == IF Leq(v, w) THEN w ELSE v

(***************************************************************************)
(* FogoTestnetChecker.calculate_score                                      *)
(***************************************************************************)
base_score_inverted(first_slot, latest_slot) ==
    LET qr == MulDivMod(first_slot, 10000, latest_slot)
    IN  [h |-> qr[1], r |-> qr[2]]

\* early_ratio = 1 - first_slot / latest_slot; base_score = early_ratio * 100
base_score(first_slot, latest_slot) ==
    LET qr == MulDivMod(latest_slot - first_slot, 10000, latest_slot)
    IN  [h |-> qr[1], r |-> qr[2]]

bucket_score_noceiling(first_slot, base) ==
    IF first_slot < slots_per_day THEN Plus(base, 40)
    ELSE IF first_slot < slots_per_day * 2 THEN Plus(base, 30)
    ELSE IF first_slot < slots_per_day * 3 THEN Plus(base, 20)
    ELSE IF first_slot < slots_per_day * 5 THEN Plus(base, 10)
    ELSE max(base, Float(5000))

\* the day buckets
bucket_score(first_slot, base) ==
    IF first_slot < slots_per_day THEN min(Plus(base, 40), Float(9990))
    ELSE IF first_slot < slots_per_day * 2 THEN min(Plus(base, 30), Float(9500))
    ELSE IF first_slot < slots_per_day * 3 THEN min(Plus(base, 20), Float(9000))
    ELSE IF first_slot < slots_per_day * 5 THEN min(Plus(base, 10), Float(8500))
    ELSE max(base, Float(5000))

\* round(score, 2): the nearest hundredth; either neighbour when the exact
\* value lies halfway
round2(score, den) ==
    IF 2 * score.r < den THEN {Float(score.h)}
    ELSE IF 2 * score.r > den THEN {Float(score.h + 1)}
    ELSE {Float(score.h), Float(score.h + 1)}

calculate_score_strict(first_slot, latest_slot) ==
    IF latest_slot < first_slot THEN {Float(0)}
    ELSE round2(bucket_score(first_slot, base_score(first_slot, latest_slot)),
                latest_slot)

\* the set of values calculate_score may return
calculate_score(first_slot, latest_slot) ==
    IF latest_slot <= first_slot THEN {Float(0)}
    ELSE round2(bucket_score(first_slot, base_score(first_slot, latest_slot)),
                latest_slot)

(***************************************************************************)
(* FogoTestnetChecker.get_tier                                             *)
(***************************************************************************)
below_or_at(slot_num, tier) == tier.inf \/ slot_num <= tier.threshold

\* slot_num < threshold, threshold possibly float("inf")
below(slot_num, tier) == tier.inf \/ slot_num < tier.threshold

RECURSIVE tier_scan(_, _)
tier_scan(slot_num, i) ==
    IF i > Len(TIERS) THEN "Unknown"
    ELSE IF below(slot_num, TIERS[i]) THEN TIERS[i].label
    ELSE tier_scan(slot_num, i + 1)

get_tier(slot_num) == tier_scan(slot_num, 1)

(***************************************************************************)
(* Inputs: what the user types and what the endpoint answers.              *)
(***************************************************************************)
\* the strings Pubkey.from_string decodes: base58 text of 32 bytes
Pubkeys == {"11111111111111111111111111111111"}

\* the input box: empty, outside the alphabet, too short, well formed
Wallets == {"", "0OIl", "abc"} \cup Pubkeys

\* block_time is seconds since the epoch, held as whole days and the rest
BlockTimes == {None,
               Some([days |-> 20293, secs |-> 3600]),
               Some([days |-> MAX_DATE + 1, secs |-> 0])}

TxSlots == {None, Some(0), Some(100000), Some(10800000)}

\* one entry of getSignaturesForAddress
TxRecords == [slot : TxSlots, block_time : BlockTimes]

Pages == UNION {[1..n -> TxRecords] : n \in 0..MaxPage}

\* an RPC call raises (transport, decoding, timeout of the HTTP layer) or
\* answers with a response object
AccountResponses == {[raises |-> TRUE, value |-> None],
                     [raises |-> FALSE, value |-> None],
                     [raises |-> FALSE, value |-> Some("account")]}

HistoryResponses == {[raises |-> TRUE, value |-> <<>>]}
                    \cup {[raises |-> FALSE, value |-> p] : p \in Pages}

SlotResponses == {[raises |-> TRUE, value |-> None]}
                 \cup {[raises |-> FALSE, value |-> Some(n)] :
                          n \in {0, 50000, 13000000, 12960000}}

(***************************************************************************)
(* FogoTestnetChecker: validation and the three reads.                     *)
(***************************************************************************)
\* Pubkey.from_string(address) returns instead of raising
from_string_ok(address) == address \in Pubkeys

is_valid_wallet_address(address) == from_string_ok(address)

\* get_account_info once the call has answered with resp
get_account_info(resp) == IF resp.raises THEN None ELSE Some([value |-> resp.value])

\* key=lambda x: x.slot if x.slot else float('inf')
sort_key(x) == IF Truthy(x.slot) THEN [inf |-> FALSE, n |-> x.slot[1]]
               ELSE [inf |-> TRUE, n |-> 0]

key_less(a, b) == ~a.inf /\ (b.inf \/ a.n < b.n)

\* x placed behind every element whose key is not greater (sorted is stable)
RECURSIVE insert(_, _)
insert(s, x) ==
    IF s = <<>> THEN <<x>>
    ELSE IF key_less(sort_key(x), sort_key(Head(s))) THEN <<x>> \o s
    ELSE <<Head(s)>> \o insert(Tail(s), x)

RECURSIVE sorted(_)
sorted(s) ==
    IF s = <<>> THEN <<>>
    ELSE insert(sorted(SubSeq(s, 1, Len(s) - 1)), s[Len(s)])

\* get_transaction_history once the call has answered with resp
get_transaction_history(resp) ==
    IF resp.raises THEN <<>>
    ELSE IF resp.value # <<>> THEN sorted(resp.value)
    ELSE <<>>

\* get_latest_slot once the call has answered with resp
get_latest_slot(resp) == IF resp.raises THEN None ELSE resp.value

(***************************************************************************)
(* FogoTestnetChecker.check_wallet, stage by stage.                        *)
(***************************************************************************)
NewResult == [valid |-> FALSE, exists |-> FALSE, first_slot |-> None,
              join_date |-> None, score |-> None, tier |-> None]

account_missing_never(info) == FALSE

\* not account_info or not account_info.value
account_missing(info) == info = None \/ info[1].value = None

\* datetime.fromtimestamp(block_time, tz=utc) raises ValueError
fromtimestamp_raises(block_time) == block_time.days > MAX_DATE

\* datetime.fromtimestamp(block_time, tz=utc).date()
fromtimestamp_date(block_time) == block_time.days

\* (TESTNET_LAUNCH_DATE + timedelta(seconds=slot * 0.04)).date()
estimated_date(slot) == TESTNET_LAUNCH_DATE + (slot * 4) \div (100 * 86400)

\* if first_tx.block_time: (None and 0 are falsy)
has_block_time(first_tx) ==
    /\ first_tx.block_time # None
    /\ (first_tx.block_time[1].days # 0 \/ first_tx.block_time[1].secs # 0)

(***************************************************************************)
(* The state after the page is loaded and before the button is pressed.    *)
(***************************************************************************)
Init ==
    /\ pc = "idle"
    /\ wallet = ""
    /\ client = "none"
    /\ calls = <<>>
    /\ account_info = None
    /\ page = <<>>
    /\ transactions = <<>>
    /\ latest = None
    /\ result = NewResult
    /\ exc = None
    /\ message = ""
    /\ elapsed = 0

(***************************************************************************)
(* The button handler up to the first await of check_wallet.               *)
(***************************************************************************)
\* if check_button: if wallet: checker = FogoTestnetChecker();
\* run_until_complete(check_wallet(wallet)) up to get_account_info's await
CheckButton(text) ==
    /\ pc = "idle"
    /\ wallet' = text
    /\ IF text = ""
       THEN /\ message' = "Please enter a wallet address."
            /\ pc' = "done"
            /\ UNCHANGED <<client, calls, result>>
       ELSE /\ client' = "open"
            /\ message' = "spinner"
            /\ IF ~is_valid_wallet_address(text)
               THEN /\ result' = NewResult
                    /\ pc' = "returned"
                    /\ UNCHANGED calls
               ELSE \* Pubkey.from_string succeeds again in get_account_info
                    /\ result' = [NewResult EXCEPT !.valid = TRUE]
                    /\ calls' = Append(calls, "getAccountInfo")
                    /\ pc' = "await_account"
    /\ UNCHANGED <<account_info, page, transactions, latest, exc, elapsed>>

\* time passes while an RPC call is awaited; nothing bounds the wait
Tick ==
    /\ pc \in {"await_account", "await_history", "await_slot"}
    /\ elapsed < MaxElapsed
    /\ elapsed' = elapsed + 10
    /\ UNCHANGED <<pc, wallet, client, calls, account_info, page,
                   transactions, latest, result, exc, message>>

\* getAccountInfo answers; check_wallet runs on to get_transaction_history's
\* await
AccountInfoReturns(resp) ==
    /\ pc = "await_account"
    /\ account_info' = get_account_info(resp)
    /\ IF account_missing(account_info')
       THEN /\ pc' = "returned"
            /\ UNCHANGED <<result, calls>>
       ELSE /\ result' = [result EXCEPT !.exists = TRUE]
            /\ calls' = Append(calls, "getSignaturesForAddress")
            /\ pc' = "await_history"
    /\ UNCHANGED <<wallet, client, page, transactions, latest, exc, message,
                   elapsed>>

\* getSignaturesForAddress answers; check_wallet runs on to get_latest_slot's
\* await
HistoryReturns(resp) ==
    /\ pc = "await_history"
    /\ page' = resp.value
    /\ transactions' = get_transaction_history(resp)
    /\ IF transactions' = <<>>
       THEN /\ pc' = "returned"
            /\ UNCHANGED <<result, calls, exc>>
       ELSE LET first_tx == transactions'[1] IN
            IF ~Truthy(first_tx.slot)
            THEN /\ pc' = "returned"
                 /\ UNCHANGED <<result, calls, exc>>
            ELSE IF has_block_time(first_tx)
                    /\ fromtimestamp_raises(first_tx.block_time[1])
            THEN /\ exc' = Some("ValueError")
                 /\ pc' = "raised"
                 /\ result' = [result EXCEPT !.first_slot = first_tx.slot]
                 /\ UNCHANGED calls
            ELSE /\ result' = [result EXCEPT
                       !.first_slot = first_tx.slot,
                       !.join_date =
                           IF has_block_time(first_tx)
                           THEN Some(fromtimestamp_date(first_tx.block_time[1]))
                           ELSE Some(estimated_date(first_tx.slot[1]))]
                 /\ calls' = Append(calls, "getSlot")
                 /\ pc' = "await_slot"
                 /\ UNCHANGED exc
    /\ UNCHANGED <<wallet, client, account_info, latest, message, elapsed>>

\* getSlot answers; check_wallet runs to its return
LatestSlotReturns(resp) ==
    /\ pc = "await_slot"
    /\ latest' = get_latest_slot(resp)
    /\ IF Truthy(latest') /\ Truthy(result.first_slot)
       THEN \E s \in calculate_score(result.first_slot[1], latest'[1]) :
                result' = [result EXCEPT
                              !.score = Some(s),
                              !.tier = Some(get_tier(result.first_slot[1]))]
       ELSE UNCHANGED result
    /\ pc' = "returned"
    /\ UNCHANGED <<wallet, client, calls, account_info, page, transactions,
                   exc, message, elapsed>>

\* loop.run_until_complete(checker.close()); loop.close()
CloseClient ==
    /\ pc = "returned"
    /\ client' = "closed"
    /\ pc' = "render"
    /\ UNCHANGED <<wallet, calls, account_info, page, transactions, latest,
                   result, exc, message, elapsed>>

\* a score of 0.0 is falsy
score_truthy(score) == score # None /\ score[1] # Float(0)

\* the rendering of the record
Render ==
    /\ pc = "render"
    /\ message' =
         IF ~result.valid THEN "Invalid wallet address format."
         ELSE IF ~result.exists THEN "Wallet not found on Fogo testnet."
         ELSE IF /\ Truthy(result.first_slot)
                 /\ result.join_date # None
                 /\ score_truthy(result.score)
                 /\ result.tier # None
              THEN "Early Score"
              ELSE "No transaction history found or unable to calculate score."
    /\ pc' = "done"
    /\ UNCHANGED <<wallet, client, calls, account_info, page, transactions,
                   latest, result, exc, elapsed>>

\* except Exception as e: st.error(...); st.stop()
HandleException ==
    /\ pc = "raised"
    /\ message' = "Error checking wallet"
    /\ pc' = "done"
    /\ UNCHANGED <<wallet, client, calls, account_info, page, transactions,
                   latest, result, exc, elapsed>>

Next ==
    \/ \E text \in Wallets : CheckButton(text)
    \/ Tick
    \/ \E resp \in AccountResponses : AccountInfoReturns(resp)
    \/ \E resp \in HistoryResponses : HistoryReturns(resp)
    \/ \E resp \in SlotResponses : LatestSlotReturns(resp)
    \/ CloseClient
    \/ Render
    \/ HandleException

Spec == Init /\ [][Next]_vars

(***************************************************************************)
(* FnSpec: calculate_score and get_tier called directly.  result holds the *)
(* arguments and the returned values.                                      *)
(***************************************************************************)
\* first positions: around every day boundary and tier threshold
FirstSlots ==
    {n \in {k * slots_per_day + d : k \in 0..GridMax, d \in {-1, 0, 1}} : n >= 0}
    \cup {TIERS[i].threshold + d : i \in 1..4, d \in {-1, 0, 1}}
    \cup {100000, 2000000}

\* latest positions: negative, zero, whole days, far future
LatestSlots ==
    {-1, 0, 3000000, 13000000, 1000000000}
    \cup {k * slots_per_day : k \in 1..LatestMax}

FnInit ==
    /\ pc = "fn_call"
    /\ \E f \in FirstSlots : result = [NewResult EXCEPT !.first_slot = Some(f)]
    /\ latest \in {Some(l) : l \in LatestSlots}
    /\ wallet = ""
    /\ client = "none"
    /\ calls = <<>>
    /\ account_info = None
    /\ page = <<>>
    /\ transactions = <<>>
    /\ exc = None
    /\ message = ""
    /\ elapsed = 0

FnCalculateScore ==
    /\ pc = "fn_call"
    /\ \E s \in calculate_score(result.first_slot[1], latest[1]) :
           result' = [result EXCEPT !.score = Some(s)]
    /\ pc' = "fn_scored"
    /\ UNCHANGED <<wallet, client, calls, account_info, page, transactions,
                   latest, exc, message, elapsed>>

FnGetTier ==
    /\ pc = "fn_scored"
    /\ result' = [result EXCEPT !.tier = Some(get_tier(result.first_slot[1]))]
    /\ pc' = "fn_done"
    /\ UNCHANGED <<wallet, client, calls, account_info, page, transactions,
                   latest, exc, message, elapsed>>

FnNext == FnCalculateScore \/ FnGetTier

FnSpec == FnInit /\ [][FnNext]_vars

(***************************************************************************)
(* Properties.                                                             *)
(***************************************************************************)
Awaiting == pc \in {"await_account", "await_history", "await_slot"}

\* check_wallet has returned its record to the handler
Returned == pc \in {"returned", "render"} \/ (pc = "done" /\ exc = None /\ wallet # "")

HasError(rec, msg) == "error" \in DOMAIN rec /\ rec.error = msg

FnFirst == result.first_slot[1]
FnLatest == latest[1]
FnScored == pc \in {"fn_scored", "fn_done"}

\* C1: every failing outcome of check_wallet returns a record whose error
\* field holds the stage's message: invalid address, account absent, empty
\* history, latest position unavailable (score and tier absent).
C1_ErrorPopulated ==
    Returned =>
        /\ ~result.valid => HasError(result, "Invalid wallet address format")
        /\ (result.valid /\ ~result.exists) =>
               HasError(result, "Wallet not found on Fogo testnet")
        /\ (result.exists /\ transactions = <<>>) =>
               HasError(result, "No transaction history found")
        /\ (result.exists /\ Len(calls) = 3 /\ ~Truthy(latest)) =>
               /\ result.score = None
               /\ result.tier = None
               /\ HasError(result, "Could not calculate score")

\* C2: no exception leaves check_wallet: whatever the endpoint answers, the
\* handler gets a record and never an exception.
C2_NoExceptionEscapes == exc = None /\ pc # "raised"

\* C3: the client created for a check is closed on every exit path: no run
\* ends with the check finished and its client still open.
C3_ClientClosedAtEnd == (pc = "done" /\ client # "none") => client = "closed"

\* C4: the RPC calls are issued in the order getAccountInfo,
\* getSignaturesForAddress, getSlot, each at most once and only when every
\* earlier stage succeeded: none for an invalid address, no
\* getSignaturesForAddress for an absent account, no getSlot for an empty
\* history.
C4_RpcOrder ==
    /\ \E n \in 0..3 :
           calls = SubSeq(<<"getAccountInfo", "getSignaturesForAddress", "getSlot">>, 1, n)
    /\ (pc # "idle" /\ wallet \notin Pubkeys) => calls = <<>>
    /\ Len(calls) >= 2 => (account_info # None /\ account_info[1].value # None)
    /\ Len(calls) >= 3 => (page # <<>> /\ transactions # <<>>)

\* a check that went through all three calls and finished
C4_AllThreeCalled == pc = "done" /\ Len(calls) = 3 /\ result.score # None

\* C5: a check that is not over after the bounded wait of 30 seconds still
\* ends, with a record or message carrying a timeout error; it never keeps
\* waiting on an RPC call.
C5_TimeoutSurfaced ==
    elapsed > 30 =>
        /\ ~Awaiting
        /\ ("error" \in DOMAIN result \/ message = "Timeout")

\* the score table of the specification, before rounding
RefUnrounded(f, l) ==
    IF l <= f \/ l <= 0 THEN Float(0)
    ELSE LET qr == MulDivMod(l - f, 10000, l)
             base == [h |-> qr[1], r |-> qr[2]]
         IN  CASE f < 2160000     -> min(Plus(base, 40), Float(9990))
               [] f >= 2160000 /\ f < 2 * 2160000 -> min(Plus(base, 30), Float(9500))
               [] f >= 2 * 2160000 /\ f < 3 * 2160000 -> min(Plus(base, 20), Float(9000))
               [] f >= 3 * 2160000 /\ f < 5 * 2160000 -> min(Plus(base, 10), Float(8500))
               [] OTHER -> max(base, Float(5000))

\* v is u rounded to a nearest hundredth, u = (u.h + u.r/den) / 100
IsRounded(v, u, den) ==
    /\ v.r = 0
    /\ v.h \in {u.h, u.h + 1}
    /\ (v.h = u.h) => 2 * u.r <= den
    /\ (v.h = u.h + 1) => 2 * u.r >= den

\* C6 as stated: calculate_score(f, l) is the table's value itself: 0.0 when
\* l <= f or l <= 0, else min(base+40, 99.9), min(base+30, 95.0),
\* min(base+20, 90.0), min(base+10, 85.0) or max(base, 50.0) by bucket.
C6_ScoreIsTableValue ==
    FnScored => result.score[1] = RefUnrounded(FnFirst, FnLatest)

\* C6 amended: calculate_score(f, l) is the table's value rounded to two
\* decimal places: exactly 0.0 when l <= f or l <= 0, and 99.9 for
\* f = 100,000, l = 13,000,000.
C6_ScoreIsRoundedTableValue ==
    FnScored =>
        /\ IsRounded(result.score[1], RefUnrounded(FnFirst, FnLatest),
                     IF FnLatest > 0 THEN FnLatest ELSE 1)
        /\ (FnLatest <= FnFirst \/ FnLatest <= 0) => result.score[1] = Float(0)
        /\ (FnFirst = 100000 /\ FnLatest = 13000000) => result.score[1] = Float(9990)

\* 73.333... is returned as 73.33
C6_RoundedCase ==
    /\ pc = "fn_scored"
    /\ FnFirst = 2000000 /\ FnLatest = 3000000
    /\ RefUnrounded(FnFirst, FnLatest).r # 0
    /\ result.score[1] = Float(7333)

\* C7: the value calculate_score returns lies in [0, 100] and has at most two
\* decimal places; score(0, 1,000,000,000) is in the first bucket and at
\* most 99.9.
C7_ScoreRange ==
    FnScored =>
        /\ result.score[1].r = 0
        /\ 0 <= result.score[1].h /\ result.score[1].h <= 10000
        /\ (FnFirst = 0 /\ FnLatest = 1000000000) =>
               (FnFirst < slots_per_day /\ result.score[1].h <= 9990)

C7_Boundary ==
    /\ pc = "fn_scored"
    /\ FnFirst = 0 /\ FnLatest = 1000000000
    /\ result.score[1] = Float(9990)

\* the threshold of TIERS[i] is strictly greater than position
Above(i, position) == TIERS[i].inf \/ TIERS[i].threshold > position

\* index of a label in TIERS, Len(TIERS) + 1 for the sentinel
TierIndex(label) ==
    IF \E i \in 1..Len(TIERS) : TIERS[i].label = label
    THEN CHOOSE i \in 1..Len(TIERS) : TIERS[i].label = label
    ELSE Len(TIERS) + 1

\* C8: get_tier(position) is the label of the first TIERS entry whose
\* threshold is strictly greater than position (2,200,000 / 4,300,000 /
\* 6,500,000 / 10,800,000 / infinity); the tier index never decreases as the
\* position grows, every position >= 10,800,000 gets "Recently Joined", and
\* "Unknown" is never returned.
C8_TierLookup ==
    pc = "fn_done" =>
        LET t == result.tier[1] IN
        /\ t # "Unknown"
        /\ \E i \in 1..Len(TIERS) :
               /\ Above(i, FnFirst)
               /\ \A j \in 1..(i - 1) : ~Above(j, FnFirst)
               /\ t = TIERS[i].label
        /\ <<TIERS[1].threshold, TIERS[2].threshold, TIERS[3].threshold,
             TIERS[4].threshold>> = <<2200000, 4300000, 6500000, 10800000>>
        /\ TIERS[5].inf /\ \A i \in 1..4 : ~TIERS[i].inf
        /\ \A q \in FirstSlots :
               q >= FnFirst => TierIndex(get_tier(q)) >= TierIndex(t)
        /\ FnFirst >= 10800000 => t = "Recently Joined"

C8_CatchAllAtLastThreshold ==
    pc = "fn_done" /\ FnFirst = 10800000 /\ result.tier[1] = "Recently Joined"

\* the positions a page carries
Positions(p) == {p[i].slot[1] : i \in {j \in 1..Len(p) : p[j].slot # None}}

Smallest(S) == CHOOSE n \in S : \A m \in S : n <= m

\* record a comes no later than record b: ascending positions, absent last
InOrder(a, b) ==
    \/ b.slot = None
    \/ (a.slot # None /\ a.slot[1] <= b.slot[1])

\* s and t hold the same records, each as often
SameRecords(s, t) ==
    /\ Len(s) = Len(t)
    /\ \A x \in TxRecords :
           Cardinality({i \in 1..Len(s) : s[i] = x})
               = Cardinality({i \in 1..Len(t) : t[i] = x})

\* C9: for a non-empty page, get_transaction_history returns the same
\* records ascending by position with the records lacking one last, so that
\* element 0 has the smallest position of the page (position 0 included),
\* and check_wallet takes that position as first_slot.
C9_EarliestFirst ==
    (pc \in {"await_slot", "returned", "render", "done"} /\ page # <<>>) =>
        /\ SameRecords(transactions, page)
        /\ \A i, j \in 1..Len(transactions) :
               i < j => InOrder(transactions[i], transactions[j])
        /\ Positions(page) # {} =>
               /\ transactions[1].slot = Some(Smallest(Positions(page)))
               /\ result.first_slot = Some(Smallest(Positions(page)))

\* C10 as stated: for a fixed latest position the score never grows with the
\* first position: f1 <= f2 < l implies score(f1, l) >= score(f2, l).
C10_MonotoneInFirst ==
    pc = "fn_scored" =>
        \A f2 \in FirstSlots :
            (FnFirst < f2 /\ f2 < FnLatest) =>
                \A s2 \in calculate_score(f2, FnLatest) :
                    Leq(s2, result.score[1])

\* C10 amended: the same for f1 <= f2 < l on one side of the last bucket
\* boundary: both below 5 * slotsPerDay (across the boundaries at 1x, 2x and
\* 3x) or both at or above it.
C10_MonotoneBesideLastBoundary ==
    pc = "fn_scored" =>
        \A f2 \in FirstSlots :
            (/\ FnFirst < f2 /\ f2 < FnLatest
             /\ (FnFirst < 5 * slots_per_day) = (f2 < 5 * slots_per_day)) =>
                \A s2 \in calculate_score(f2, FnLatest) :
                    Leq(s2, result.score[1])

\* the last position of day 1 scores above the first position of day 2
C10_AcrossDayOne ==
    /\ pc = "fn_scored"
    /\ FnFirst = slots_per_day - 1 /\ FnLatest = 3000000
    /\ \E s2 \in calculate_score(slots_per_day, FnLatest) :
           Leq(s2, result.score[1]) /\ s2 # result.score[1]

====
